---- MODULE Spec2Model ----
(***************************************************************************)
(* Model of the badssl package: private keys, certificates and the         *)
(* certificate authority, together with the PEM / DER conversions they     *)
(* go through.  A caller holds one Authority (auth) and sees the outcome   *)
(* of the last public operation it invoked (res).                          *)
(*                                                                         *)
(* Byte strings (DER, PEM) are sequences of integers.  Pointers and        *)
(* interface values that may be nil are sequences of length 0 (nil) or 1.  *)
(* Times are counted in clock ticks; a certificate's binary form stores    *)
(* whole seconds only.                                                     *)
(***************************************************************************)
EXTENDS Integers, Sequences, FiniteSets, TLC

VARIABLES auth, origin, res, strictSigner

vars == <<auth, origin, res, strictSigner>>

(***************************************************************************)
(* Bounds of the model.                                                    *)
(***************************************************************************)
\* RSA keys are identified by 1..NumKeys.
NumKeys == 2
\* Clock ticks per second (time.Time has 10^9 of them).
TicksPerSecond == 2
\* CertOptions.ValidFor ranges over 0..MaxValidFor ticks.
MaxValidFor == 3
\* A sample of the serial numbers rand.Int draws below 2^128.
SerialNumbers == {0, 1}
\* The common names a caller asks for.
CNTable == <<"root", "leaf">>

CommonNames == {CNTable[i] : i \in 1..Len(CNTable)}

None == <<>>

Some(x) == <<x>>

(***************************************************************************)
(* Keys.                                                                   *)
(***************************************************************************)
\* A nil *PrivateKey.
NilKey == 0

Keys == 1..NumKeys

\* &k.privateKey.PublicKey: the public half of RSA key k.  Public keys and
\* private keys of one pair carry the same identifier; NilKey is "no key".
PublicKeyOf(k) == k

\* newKey / NewPrivateKey: rsa.GenerateKey yields gen, or fails (gen = NilKey).
NewPrivateKey(gen) ==
    IF gen = NilKey THEN [k |-> NilKey, err |-> "rsa.GenerateKey failed"]
    ELSE [k |-> gen, err |-> ""]

\* randomSerialNumber: rand.Int yields sn, or fails (sn < 0).
randomSerialNumber(sn) ==
    IF sn < 0 THEN [sn |-> 0, err |-> "rand.Int failed"]
    ELSE [sn |-> sn, err |-> ""]

(***************************************************************************)
(* DER: the binary forms.                                                  *)
(***************************************************************************)
\* Leading tag of an encoded certificate, PKCS#1 private key, PKIX public key.
CertTag == 48
KeyTag == 49
PubTag == 50

CNCode(s) == CHOOSE i \in 1..Len(CNTable) : CNTable[i] = s

BoolCode(b) == IF b THEN 1 ELSE 0

\* Whole seconds of a time given in ticks (ASN.1 times drop the fraction).
Seconds(t) == t \div TicksPerSecond

KeyUsageKeyEncipherment == 4
KeyUsageDigitalSignature == 1
KeyUsageCertSign == 32
\* RootCAKeyUsage: the three bits or-ed together (they are disjoint).
RootCAKeyUsage == KeyUsageKeyEncipherment + KeyUsageDigitalSignature + KeyUsageCertSign

ExtKeyUsageServerAuth == 1

\* The x509.Certificate fields the package sets or reads.
X509Certificate(sn, subject, issuer, nb, na, ku, eku, bcv, ca, pub, sig, raw) ==
    [SerialNumber |-> sn, Subject |-> subject, Issuer |-> issuer,
     NotBefore |-> nb, NotAfter |-> na, KeyUsage |-> ku, ExtKeyUsage |-> eku,
     BasicConstraintsValid |-> bcv, IsCA |-> ca, PublicKey |-> pub,
     Signature |-> sig, Raw |-> raw]

\* Position of each field in the encoded certificate.
CertFixedLen == 12

\* The bytes x509.CreateCertificate emits for a template signed by key sig
\* with issuer name issuer and subject public key pub.
MarshalCertificate(t, issuer, pub, sig) ==
    <<CertTag, t.SerialNumber, CNCode(issuer), CNCode(t.Subject),
      Seconds(t.NotBefore), Seconds(t.NotAfter), pub,
      BoolCode(t.BasicConstraintsValid), BoolCode(t.IsCA), t.KeyUsage, sig,
      Len(t.ExtKeyUsage)>> \o t.ExtKeyUsage

WellFormedCertDER(d) ==
    /\ Len(d) >= CertFixedLen
    /\ d[1] = CertTag
    /\ d[2] >= 0
    /\ d[3] \in 1..Len(CNTable)
    /\ d[4] \in 1..Len(CNTable)
    /\ d[7] \in Keys
    /\ d[8] \in {0, 1}
    /\ d[9] \in {0, 1}
    /\ d[10] >= 0
    /\ d[11] \in Keys
    /\ d[12] = Len(d) - CertFixedLen
    /\ \A i \in (CertFixedLen + 1)..Len(d) : d[i] >= 0

\* x509.ParseCertificate: the parsed structure, or an error.
ParseCertificate(d) ==
    IF WellFormedCertDER(d)
    THEN [cert |-> Some(X509Certificate(d[2], CNTable[d[4]], CNTable[d[3]],
                        d[5] * TicksPerSecond, d[6] * TicksPerSecond, d[10],
                        SubSeq(d, CertFixedLen + 1, Len(d)), d[8] = 1, d[9] = 1,
                        d[7], d[11], d)),
          err |-> ""]
    ELSE [cert |-> None, err |-> "x509: malformed certificate"]

\* x509.CreateCertificate(rand, template, parent, pub, priv).  The issuer name
\* is the parent's subject and the signature is made with priv.  Toolchains
\* from Go 1.16 on reject a signer whose public key differs from the public
\* key of a parsed parent (strict); earlier ones sign regardless.
CreateCertificate(template, parent, pub, priv, strict) ==
    IF strict /\ parent.PublicKey # NilKey /\ parent.PublicKey # PublicKeyOf(priv)
    THEN [der |-> <<>>, err |-> "x509: provided PrivateKey doesn't match parent's PublicKey"]
    ELSE [der |-> MarshalCertificate(template, parent.Subject, pub, priv), err |-> ""]

\* Certificate.CheckSignature under public key pub.
SignatureVerifies(c, pub) == c.Signature = pub

\* x509.MarshalPKCS1PrivateKey.
MarshalPKCS1PrivateKey(k) == <<KeyTag, k>>

\* x509.ParsePKCS1PrivateKey.
ParsePKCS1PrivateKey(d) ==
    IF Len(d) = 2 /\ d[1] = KeyTag /\ d[2] \in Keys
    THEN [key |-> d[2], err |-> ""]
    ELSE [key |-> NilKey, err |-> "x509: failed to parse private key"]

\* x509.MarshalPKIXPublicKey accepts public keys only: handed any other
\* type (here "*rsa.PrivateKey") it returns an error.
MarshalPKIXPublicKey(kind, k) ==
    IF kind = "*rsa.PublicKey"
    THEN [der |-> <<PubTag, PublicKeyOf(k)>>, err |-> ""]
    ELSE [der |-> <<>>, err |-> "x509: unsupported public key type"]

(***************************************************************************)
(* PEM: the text form.  A block is a BEGIN line naming its type, the body, *)
(* and an END line naming the type again.                                  *)
(***************************************************************************)
PEMBegin == -1
PEMEnd == -2
TypeCertificate == -11
TypePublicKey == -12
TypeRSAPrivateKey == -13

PEMTypes == {TypeCertificate, TypePublicKey, TypeRSAPrivateKey}

\* pem.Encode of a block without headers.
PEMEncode(type, bytes) == <<PEMBegin, type>> \o bytes \o <<PEMEnd, type>>

\* pem.Decode: the first block of data, or nil.
PEMDecode(data) ==
    LET begins == {i \in 1..Len(data) : data[i] = PEMBegin /\ i + 1 <= Len(data)}
    IN  IF begins = {} THEN None
        ELSE
          LET i == CHOOSE x \in begins : \A y \in begins : x <= y
              type == data[i + 1]
              ends == {j \in (i + 2)..(Len(data) - 1) :
                          data[j] = PEMEnd /\ data[j + 1] = type}
          IN  IF ends = {} THEN None
              ELSE
                LET j == CHOOSE x \in ends : \A y \in ends : x <= y
                    body == SubSeq(data, i + 2, j - 1)
                IN  IF \A n \in 1..Len(body) : body[n] >= 0
                    THEN Some([Type |-> type, Bytes |-> body])
                    ELSE None

\* decodePEMData.
decodePEMData(data) ==
    IF Len(data) = 0 THEN [block |-> None, err |-> "zero-length PEM block"]
    ELSE LET block == PEMDecode(data)
         IN  IF block = None
             THEN [block |-> None, err |-> "no PEM block could be decoded"]
             ELSE [block |-> block, err |-> ""]

(***************************************************************************)
(* certificate (the Certificate implementation).                           *)
(***************************************************************************)
\* The certificate struct.
certificate(k, cert, der) == [privateKey |-> k, cert |-> cert, der |-> der]

\* A *certificate returned as a Certificate interface value.  A nil pointer
\* converted to an interface is a non-nil interface holding a nil pointer.
AsCertificate(ptr) == IF ptr = None THEN "typed-nil" ELSE "value"

\* (*certificate).GetKey.
GetKey(c) == c.privateKey

\* certDERToPEM.
certDERToPEM(der) == [pem |-> PEMEncode(TypeCertificate, der), err |-> ""]

\* (*certificate).GetPEM.
GetPEM(c) == certDERToPEM(c.der)

\* parseCertificateDER.
parseCertificateDER(data, k) ==
    LET p == ParseCertificate(data)
    IN  IF p.err # "" THEN [c |-> None, err |-> p.err]
        ELSE [c |-> Some(certificate(k, p.cert[1], data)), err |-> ""]

\* parseCertificatePEM handing the whole text, not the block's bytes, on.
parseCertificatePEM_WholeText(data, k) ==
    LET d == decodePEMData(data)
    IN  IF d.err # "" THEN [c |-> None, err |-> d.err]
        ELSE parseCertificateDER(data, k)

\* parseCertificatePEM.  The type check assigns err and falls through: the
\* return statement that follows overwrites it with parseCertificateDER's
\* results.
parseCertificatePEM(data, k) ==
    LET d == decodePEMData(data)
    IN  IF d.err # "" THEN [c |-> None, err |-> d.err]
        ELSE LET block == d.block[1]
                 err == IF block.Type # TypeCertificate
                        THEN "PEM block is not of type CERTIFICATE"
                        ELSE ""
                 ret == parseCertificateDER(block.Bytes, k)
             IN  [c |-> ret.c, err |-> ret.err]

\* ParseCertificatePEM.
ParseCertificatePEM(data, k) ==
    LET r == parseCertificatePEM(data, k)
    IN  [iface |-> AsCertificate(r.c), c |-> r.c, err |-> r.err]

\* ParseCertificateDER.
ParseCertificateDER(data, k) ==
    LET r == parseCertificateDER(data, k)
    IN  [iface |-> AsCertificate(r.c), c |-> r.c, err |-> r.err]

(***************************************************************************)
(* PrivateKey and PublicKey.                                               *)
(***************************************************************************)
\* ParseKeyDER.
ParseKeyDER(data) ==
    LET p == ParsePKCS1PrivateKey(data)
    IN  IF p.err # "" THEN [k |-> NilKey, err |-> p.err]
        ELSE [k |-> p.key, err |-> ""]

\* ParseKeyPEM.
ParseKeyPEM(data) ==
    LET d == decodePEMData(data)
    IN  IF d.err # "" THEN [k |-> NilKey, err |-> d.err]
        ELSE IF d.block[1].Type # TypeRSAPrivateKey
             THEN [k |-> NilKey, err |-> "PEM block is not of type RSA PRIVATE KEY"]
             ELSE ParseKeyDER(d.block[1].Bytes)

\* (*PrivateKey).GetPEM.
PrivateKeyGetPEM(k) ==
    [pem |-> PEMEncode(TypeRSAPrivateKey, MarshalPKCS1PrivateKey(k)), err |-> ""]

\* (*PrivateKey).Public: the PublicKey wraps the same *rsa.PrivateKey.
Public(k) == [privateKey |-> k]

\* (*PublicKey).GetPEM: hands k.privateKey, an *rsa.PrivateKey, to
\* x509.MarshalPKIXPublicKey.
PublicKeyGetPEM(pk) ==
    LET m == MarshalPKIXPublicKey("*rsa.PrivateKey", pk.privateKey)
    IN  IF m.err # "" THEN [pem |-> <<>>, err |-> m.err]
        ELSE [pem |-> PEMEncode(TypePublicKey, m.der), err |-> ""]

(***************************************************************************)
(* authority (the Authority implementation).                               *)
(***************************************************************************)
CertOptions == [ValidFor : 0..MaxValidFor, CommonName : CommonNames]

\* The authority struct.
authority(c) == [c |-> c]

\* newAuthorityCertificate: sn is what rand.Int draws, now what time.Now reads.
newAuthorityCertificate(o, sn, now) ==
    LET r == randomSerialNumber(sn)
    IN  IF r.err # "" THEN [cert |-> None, err |-> r.err]
        ELSE [cert |-> Some(X509Certificate(r.sn, o.CommonName, "", now,
                              now + o.ValidFor, RootCAKeyUsage,
                              <<ExtKeyUsageServerAuth>>, TRUE, TRUE, NilKey,
                              NilKey, <<>>)),
              err |-> ""]

\* newServerCertificate with notAfter one second late.
newServerCertificate_LateNotAfter(o, sn, now) ==
    LET r == randomSerialNumber(sn)
    IN  IF r.err # "" THEN [cert |-> None, err |-> r.err]
        ELSE [cert |-> Some(X509Certificate(r.sn, o.CommonName, "", now,
                              now + o.ValidFor + TicksPerSecond, 0, <<>>, TRUE,
                              FALSE, NilKey, NilKey, <<>>)),
              err |-> ""]

\* newServerCertificate.
newServerCertificate(o, sn, now) ==
    LET r == randomSerialNumber(sn)
    IN  IF r.err # "" THEN [cert |-> None, err |-> r.err]
        ELSE [cert |-> Some(X509Certificate(r.sn, o.CommonName, "", now,
                              now + o.ValidFor, 0, <<>>, TRUE, FALSE, NilKey,
                              NilKey, <<>>)),
              err |-> ""]

\* ParseAuthorityPEM.
ParseAuthorityPEM(data, k) ==
    LET r == parseCertificatePEM(data, k)
    IN  IF r.err # "" THEN [iface |-> "nil", a |-> None, err |-> r.err]
        ELSE [iface |-> "value", a |-> Some(authority(r.c[1])), err |-> ""]

\* ParseAuthorityDER.
ParseAuthorityDER(data, k) ==
    LET r == parseCertificateDER(data, k)
    IN  IF r.err # "" THEN [iface |-> "nil", a |-> None, err |-> r.err]
        ELSE [iface |-> "value", a |-> Some(authority(r.c[1])), err |-> ""]

\* (*authority).Reload.
Reload(a) == ParseAuthorityDER(a.c.der, a.c.privateKey)

\* (*authority).GetPEM.
AuthorityGetPEM(a) == GetPEM(a.c)

\* (*authority).GetKey.
AuthorityGetKey(a) == GetKey(a.c)

\* NewAuthority.  gen is the key rsa.GenerateKey would produce.
NewAuthority(k, o, gen, sn, now, strict) ==
    LET g == IF k = NilKey THEN NewPrivateKey(gen) ELSE [k |-> k, err |-> ""]
    IN  IF g.err # "" THEN [iface |-> "nil", a |-> None, err |-> g.err]
        ELSE
          LET t == newAuthorityCertificate(o, sn, now)
          IN  IF t.err # "" THEN [iface |-> "nil", a |-> None, err |-> t.err]
              ELSE
                LET cert == t.cert[1]
                    s == CreateCertificate(cert, cert, PublicKeyOf(g.k), g.k, strict)
                IN  IF s.err # "" THEN [iface |-> "nil", a |-> None, err |-> s.err]
                    ELSE Reload(authority(certificate(g.k, cert, s.der)))

\* NewCert keeping the leaf's key as the authority's own.
ReceiverAfterNewCert_KeepsLeafKey(a, k) ==
    authority(certificate(k, a.c.cert, a.c.der))

\* The receiver as NewCert leaves it: the method assigns to no field of a
\* or of a.c.
ReceiverAfterNewCert(a, k) == a

\* (*authority).NewCert on receiver a.  The result also carries the receiver
\* as the call leaves it (recv) and whether the call panicked: the signer
\* argument a.c.privateKey.privateKey dereferences a.c.privateKey.
NewCert(a, k, o, gen, sn, now, strict) ==
    LET g == IF k = NilKey THEN NewPrivateKey(gen) ELSE [k |-> k, err |-> ""]
        fail(e) == [iface |-> "nil", c |-> None, err |-> e, panicked |-> FALSE,
                    recv |-> a]
    IN  IF g.err # "" THEN fail(g.err)
        ELSE
          LET t == newServerCertificate(o, sn, now)
          IN  IF t.err # "" THEN fail(t.err)
              ELSE IF a.c.privateKey = NilKey
              THEN [iface |-> "nil", c |-> None, err |-> "", panicked |-> TRUE,
                    recv |-> a]
              ELSE
                LET cert == t.cert[1]
                    s == CreateCertificate(cert, a.c.cert, PublicKeyOf(g.k),
                                           a.c.privateKey, strict)
                IN  IF s.err # "" THEN fail(s.err)
                    ELSE [iface |-> "value",
                          c |-> Some(certificate(g.k, cert, s.der)),
                          err |-> "", panicked |-> FALSE,
                          recv |-> ReceiverAfterNewCert(a, g.k)]

(***************************************************************************)
(* The caller.  auth is the Authority it holds (nil at first), origin the  *)
(* operation that returned it, res the outcome of the call it has just     *)
(* made (op = "idle" between calls), and strictSigner whether the          *)
(* toolchain's x509.CreateCertificate checks the signer against the        *)
(* parent's public key.  A panic ends the program.                         *)
(***************************************************************************)
Result(op, iface, err, c, key, pem, panicked, k, o, data, recv, recvOrigin) ==
    [op |-> op, iface |-> iface, err |-> err, c |-> c, key |-> key, pem |-> pem,
     panicked |-> panicked, k |-> k, o |-> o, data |-> data, recv |-> recv,
     recvOrigin |-> recvOrigin]

\* What time.Now reads: the position within the current second.
Clock == 0..(TicksPerSecond - 1)

\* What rsa.GenerateKey may produce when it is called (NilKey: failure).
GenOutcomes(k) == IF k = NilKey THEN Keys \cup {NilKey} ELSE {NilKey}

\* What rand.Int may produce (-1: failure).
SerialOutcomes == SerialNumbers \cup {-1}

\* Byte strings that are no certificate.
GarbageDER == {<<>>, <<CertTag>>, MarshalPKCS1PrivateKey(1)}

\* The binary forms the caller passes to the certificate parsers: garbage,
\* and the certificate of the authority it holds.
CertDERInputs == GarbageDER \cup (IF auth = None THEN {} ELSE {auth[1].c.der})

KeyDERInputs == {<<>>, <<KeyTag>>} \cup {MarshalPKCS1PrivateKey(k) : k \in Keys}

\* Texts: empty, without any block, or one block of each type.
PEMInputs(ders) == {<<>>, <<7>>} \cup {PEMEncode(t, d) : t \in PEMTypes, d \in ders}

Idle ==
    Result("idle", "nil", "", None, NilKey, <<>>, FALSE, NilKey, None, <<>>, None,
           "none")

Init ==
    /\ auth = None
    /\ origin = "none"
    /\ strictSigner \in BOOLEAN
    /\ res = Idle

\* Between calls, and not panicked.
Running == res.op = "idle"

\* The caller is done with the result of its last call.
Discard ==
    /\ res.op # "idle"
    /\ ~res.panicked
    /\ res' = Idle
    /\ UNCHANGED <<auth, origin, strictSigner>>

DoNewAuthority ==
    /\ Running
    /\ \E k \in Keys \cup {NilKey}, o \in CertOptions, sn \in SerialOutcomes,
          now \in Clock :
         \E gen \in GenOutcomes(k) :
           LET r == NewAuthority(k, o, gen, sn, now, strictSigner)
           IN  /\ res' = Result("NewAuthority", r.iface, r.err,
                                IF r.a = None THEN None ELSE Some(r.a[1].c),
                                NilKey, <<>>, FALSE, k, Some(o), <<>>, None, "none")
               /\ auth' = IF r.err = "" THEN r.a ELSE auth
               /\ origin' = IF r.err = "" THEN "NewAuthority" ELSE origin
    /\ UNCHANGED strictSigner

DoParseAuthorityPEM ==
    /\ Running
    /\ \E data \in PEMInputs(CertDERInputs), k \in Keys \cup {NilKey} :
         LET r == ParseAuthorityPEM(data, k)
         IN  /\ res' = Result("ParseAuthorityPEM", r.iface, r.err,
                              IF r.a = None THEN None ELSE Some(r.a[1].c),
                              NilKey, <<>>, FALSE, k, None, data, auth, origin)
             /\ auth' = IF r.err = "" THEN r.a ELSE auth
             /\ origin' = IF r.err = "" THEN "ParseAuthorityPEM" ELSE origin
    /\ UNCHANGED strictSigner

DoParseAuthorityDER ==
    /\ Running
    /\ \E data \in CertDERInputs, k \in Keys \cup {NilKey} :
         LET r == ParseAuthorityDER(data, k)
         IN  /\ res' = Result("ParseAuthorityDER", r.iface, r.err,
                              IF r.a = None THEN None ELSE Some(r.a[1].c),
                              NilKey, <<>>, FALSE, k, None, data, auth, origin)
             /\ auth' = IF r.err = "" THEN r.a ELSE auth
             /\ origin' = IF r.err = "" THEN "ParseAuthorityDER" ELSE origin
    /\ UNCHANGED strictSigner

DoParseCertificatePEM ==
    /\ Running
    /\ \E data \in PEMInputs(CertDERInputs), k \in Keys \cup {NilKey} :
         LET r == ParseCertificatePEM(data, k)
         IN  res' = Result("ParseCertificatePEM", r.iface, r.err, r.c, NilKey,
                           <<>>, FALSE, k, None, data, None, "none")
    /\ UNCHANGED <<auth, origin, strictSigner>>

DoParseCertificateDER ==
    /\ Running
    /\ \E data \in CertDERInputs, k \in Keys \cup {NilKey} :
         LET r == ParseCertificateDER(data, k)
         IN  res' = Result("ParseCertificateDER", r.iface, r.err, r.c, NilKey,
                           <<>>, FALSE, k, None, data, None, "none")
    /\ UNCHANGED <<auth, origin, strictSigner>>

DoNewCert ==
    /\ Running
    /\ auth # None
    /\ \E k \in Keys \cup {NilKey}, o \in CertOptions, sn \in SerialOutcomes,
          now \in Clock :
         \E gen \in GenOutcomes(k) :
           LET r == NewCert(auth[1], k, o, gen, sn, now, strictSigner)
           IN  /\ res' = Result("NewCert", r.iface, r.err, r.c, NilKey, <<>>,
                                r.panicked, k, Some(o), <<>>, None, "none")
               /\ auth' = Some(r.recv)
    /\ UNCHANGED <<origin, strictSigner>>

DoParseKeyPEM ==
    /\ Running
    /\ \E data \in PEMInputs(KeyDERInputs) :
         LET r == ParseKeyPEM(data)
         IN  res' = Result("ParseKeyPEM", IF r.k = NilKey THEN "nil" ELSE "value",
                           r.err, None, r.k, <<>>, FALSE, NilKey, None, data,
                           None, "none")
    /\ UNCHANGED <<auth, origin, strictSigner>>

DoParseKeyDER ==
    /\ Running
    /\ \E data \in KeyDERInputs :
         LET r == ParseKeyDER(data)
         IN  res' = Result("ParseKeyDER", IF r.k = NilKey THEN "nil" ELSE "value",
                           r.err, None, r.k, <<>>, FALSE, NilKey, None, data,
                           None, "none")
    /\ UNCHANGED <<auth, origin, strictSigner>>

\* k.Public().GetPEM() on a well-formed key.
DoPublicGetPEM ==
    /\ Running
    /\ \E k \in Keys :
         LET r == PublicKeyGetPEM(Public(k))
         IN  res' = Result("PublicKey.GetPEM", "value", r.err, None, NilKey,
                           r.pem, FALSE, k, None, <<>>, None, "none")
    /\ UNCHANGED <<auth, origin, strictSigner>>

Next ==
    \/ DoNewAuthority
    \/ DoParseAuthorityPEM
    \/ DoParseAuthorityDER
    \/ DoParseCertificatePEM
    \/ DoParseCertificateDER
    \/ DoNewCert
    \/ DoParseKeyPEM
    \/ DoParseKeyDER
    \/ DoPublicGetPEM
    \/ Discard

Spec == Init /\ [][Next]_vars

(***************************************************************************)
(* Properties.                                                             *)
(***************************************************************************)
CertificateOps ==
    {"NewAuthority", "ParseAuthorityPEM", "ParseAuthorityDER",
     "ParseCertificatePEM", "ParseCertificateDER", "NewCert"}

KeyOps == {"ParseKeyPEM", "ParseKeyDER"}

\* The last call returned an entity and no error.
Succeeded == res.err = "" /\ ~res.panicked /\ res.c # None

\* The last call minted a certificate.
Minted == res.op \in {"NewAuthority", "NewCert"} /\ Succeeded

\* The certificate parsed from the returned entity's binary form.
ParsedResult == ParseCertificate(res.c[1].der).cert[1]

\* The validity window recorded in the returned binary form, in ticks.
RecordedSpan == ParsedResult.NotAfter - ParsedResult.NotBefore

\* The last call was ParseAuthorityPEM(A.GetPEM(), A.GetKey()) for the
\* authority A that NewAuthority had returned.
RoundTripCall ==
    /\ res.op = "ParseAuthorityPEM"
    /\ res.recv # None
    /\ res.recvOrigin = "NewAuthority"
    /\ res.data = AuthorityGetPEM(res.recv[1]).pem
    /\ res.k = AuthorityGetKey(res.recv[1])

\* C1: an authority made by NewAuthority, written with GetPEM and read back
\* by ParseAuthorityPEM with its own key, comes back without error, with a
\* byte-identical binary certificate and the same GetPEM output.
C1_RoundTrip ==
    RoundTripCall =>
        /\ AuthorityGetPEM(res.recv[1]).err = ""
        /\ res.err = ""
        /\ res.iface = "value"
        /\ res.c # None
        /\ res.c[1].der = res.recv[1].c.der
        /\ GetPEM(res.c[1]) = AuthorityGetPEM(res.recv[1])
        /\ auth = Some(authority(res.c[1]))

C1_Witness == RoundTripCall /\ Succeeded /\ res.k # NilKey

\* C2: a certificate returned by a successful NewCert on any authority names
\* the authority's subject as issuer and o.CommonName as subject, embeds the
\* leaf key's public key, and its signature verifies under the public key
\* embedded in the authority's certificate.
C2_LeafChainsToAuthority ==
    (res.op = "NewCert" /\ Succeeded) =>
        /\ ParseCertificate(res.c[1].der).err = ""
        /\ ParsedResult.Issuer = auth[1].c.cert.Subject
        /\ ParsedResult.Subject = res.o[1].CommonName
        /\ ParsedResult.PublicKey = PublicKeyOf(GetKey(res.c[1]))
        /\ SignatureVerifies(ParsedResult, auth[1].c.cert.PublicKey)

\* The last call was handed a PEM block whose type is not CERTIFICATE.
WrongTagForCertificate ==
    /\ PEMDecode(res.data) # None
    /\ PEMDecode(res.data)[1].Type # TypeCertificate

\* C3: ParseCertificatePEM and ParseAuthorityPEM, given a block whose type is
\* not CERTIFICATE, return an error and no certificate, whatever the body.
C3_WrongTagRejected ==
    (res.op \in {"ParseCertificatePEM", "ParseAuthorityPEM"} /\ WrongTagForCertificate)
        => (res.err # "" /\ res.c = None)

\* C4: in every Certificate or Authority a public operation returns, the
\* parsed certificate is the parse of the stored binary form.
C4_ParsedMatchesBinary ==
    /\ (res.op \in CertificateOps /\ Succeeded) =>
           Some(res.c[1].cert) = ParseCertificate(res.c[1].der).cert
    /\ auth # None => Some(auth[1].c.cert) = ParseCertificate(auth[1].c.der).cert

\* C5: every creation or parsing operation returns either no error and an
\* entity whose binary form parses, or an error and a nil entity.
C5_NoPartialSuccess ==
    /\ res.op \in CertificateOps =>
        /\ ~res.panicked
        /\ \/ /\ res.err = ""
              /\ res.iface = "value"
              /\ res.c # None
              /\ ParseCertificate(res.c[1].der).err = ""
           \/ /\ res.err # ""
              /\ res.iface = "nil"
              /\ res.c = None
    /\ res.op \in KeyOps =>
        \/ res.err = "" /\ res.iface = "value" /\ res.key \in Keys
        \/ res.err # "" /\ res.iface = "nil" /\ res.key = NilKey

\* C6: a NewCert call, whatever its outcome, leaves the authority's binary
\* certificate, parsed certificate and key as they were, so GetPEM and
\* GetKey answer as before.
C6_NewCertLeavesAuthority ==
    [][res'.op = "NewCert" =>
          /\ auth' = auth
          /\ AuthorityGetPEM(auth'[1]) = AuthorityGetPEM(auth[1])
          /\ AuthorityGetKey(auth'[1]) = AuthorityGetKey(auth[1])]_vars

C6_Witness == res.op = "NewCert" /\ Succeeded /\ res.k = NilKey /\ origin = "NewAuthority"

\* The type a PEM parser expects, and the error it reports for another one.
ExpectedType(op) == IF op = "ParseKeyPEM" THEN TypeRSAPrivateKey ELSE TypeCertificate

TypeMismatchError(op) ==
    IF op = "ParseKeyPEM" THEN "PEM block is not of type RSA PRIVATE KEY"
    ELSE "PEM block is not of type CERTIFICATE"

DERParseErrors == {"x509: malformed certificate", "x509: failed to parse private key"}

\* C7: ParseKeyPEM and ParseCertificatePEM report the error of the first
\* failing stage: empty input, no block, wrong type tag, then the DER parse.
C7_FirstFailingStage ==
    res.op \in {"ParseKeyPEM", "ParseCertificatePEM"} =>
        LET b == PEMDecode(res.data)
        IN  /\ Len(res.data) = 0 => res.err = "zero-length PEM block"
            /\ (Len(res.data) # 0 /\ b = None) =>
                   res.err = "no PEM block could be decoded"
            /\ (b # None /\ b[1].Type # ExpectedType(res.op)) =>
                   res.err = TypeMismatchError(res.op)
            /\ res.err \in DERParseErrors =>
                   (b # None /\ b[1].Type = ExpectedType(res.op))

\* C8 as stated: the validity window recorded in the binary form of every
\* minted certificate spans exactly o.ValidFor, for every duration.
C8_SpanExact == Minted => RecordedSpan = res.o[1].ValidFor

\* C8 amended: the recorded window spans exactly o.ValidFor when o.ValidFor
\* is a whole number of seconds, and otherwise a whole number of seconds
\* less than one second away from o.ValidFor.
C8_SpanExactForWholeSeconds ==
    Minted =>
        /\ res.o[1].ValidFor % TicksPerSecond = 0 => RecordedSpan = res.o[1].ValidFor
        /\ RecordedSpan % TicksPerSecond = 0
        /\ RecordedSpan - res.o[1].ValidFor < TicksPerSecond
        /\ res.o[1].ValidFor - RecordedSpan < TicksPerSecond

C8_Witness ==
    /\ res.op = "NewCert"
    /\ Succeeded
    /\ res.o[1].ValidFor > 0
    /\ res.o[1].ValidFor % TicksPerSecond = 0
    /\ RecordedSpan = res.o[1].ValidFor

\* C9: k.Public().GetPEM() returns no error and a PUBLIC KEY block holding
\* the binary encoding of k's public key.
C9_PublicKeyPEM ==
    res.op = "PublicKey.GetPEM" =>
        /\ res.err = ""
        /\ PEMDecode(res.pem) =
               Some([Type |-> TypePublicKey, Bytes |-> <<PubTag, PublicKeyOf(res.k)>>])

\* C10: NewCert on any authority, also one loaded with a nil key, returns a
\* certificate or an error; it never panics on the authority's absent key.
C10_NewCertReturns ==
    res.op = "NewCert" =>
        /\ ~res.panicked
        /\ (res.err = "" /\ res.c # None) \/ (res.err # "" /\ res.c = None)

====
